---- MODULE Spec2Model ----
(***************************************************************************)
(* Model of app/parse.py: a Selenium driven scraper.  get_all_products     *)
(* starts one browser session, renders every page of PAGES (navigate,      *)
(* accept cookies, click "load more" until it is gone), extracts one       *)
(* Product per ".thumbnail" node with get_product, writes the page's list  *)
(* to <page>.csv and finally quits the session.                            *)
(*                                                                         *)
(* Two specifications share the variables:                                 *)
(*   Spec         the orchestration (get_all_products and what it calls);  *)
(*   SpecExtract  get_product applied to one listing node drawn from a     *)
(*                bounded set of nodes.                                    *)
(*                                                                         *)
(* Text that the code parses (description, price, review count) is a       *)
(* sequence of one-character strings, so that replace / strip / split /    *)
(* float / int are computed the way Python computes them.                  *)
(***************************************************************************)
EXTENDS Integers, Sequences, FiniteSets, TLC

(***************************************************************************)
(* Bounds of the model.                                                    *)
(***************************************************************************)
\* longest document, in listing nodes, a page can render
MaxNodes == 2
\* how many times the load-more control can become clickable on a page
MaxClicks == 3
\* longest enumerated price / review-count text
MaxLen == 2
\* most <span> elements of an enumerated listing node
MaxSpans == 2

(***************************************************************************)
(* Strings                                                                 *)
(***************************************************************************)
NBSP == "\\xa0"

Whitespace == {" ", "\t", "\n"}

Digits10 == <<"0", "1", "2", "3", "4", "5", "6", "7", "8", "9">>

Digit == {Digits10[k] : k \in 1..10}

DigitVal(c) == (CHOOSE k \in 1..10 : Digits10[k] = c) - 1

\* all sequences over alphabet of length 0..n
RECURSIVE SeqsUpTo(_, _)
SeqsUpTo(alphabet, n) ==
    IF n = 0 THEN {<<>>}
    ELSE LET shorter == SeqsUpTo(alphabet, n - 1)
         IN  shorter \cup {Append(s, c) : s \in shorter, c \in alphabet}

\* str.replace(old, new) for a one-character old
RECURSIVE Replace(_, _, _)
Replace(s, old, new) ==
    IF s = <<>> THEN <<>>
    ELSE (IF Head(s) = old THEN new ELSE <<Head(s)>>) \o Replace(Tail(s), old, new)

RECURSIVE LStrip(_)
LStrip(s) ==
    IF s # <<>> /\ Head(s) \in Whitespace THEN LStrip(Tail(s)) ELSE s

RECURSIVE RStrip(_)
RStrip(s) ==
    IF s # <<>> /\ s[Len(s)] \in Whitespace
    THEN RStrip(SubSeq(s, 1, Len(s) - 1))
    ELSE s

\* str.strip()
Strip(s) == RStrip(LStrip(s))

\* str.split(" ")[0]: the text before the first single space
RECURSIVE SplitFirst(_)
SplitFirst(s) ==
    IF s = <<>> \/ Head(s) = " " THEN <<>>
    ELSE <<Head(s)>> \o SplitFirst(Tail(s))

\* value of a sequence of decimal digits
RECURSIVE DigitsValue(_)
DigitsValue(s) ==
    IF s = <<>> THEN 0
    ELSE 10 * DigitsValue(SubSeq(s, 1, Len(s) - 1)) + DigitVal(s[Len(s)])

RECURSIVE Pow10(_)
Pow10(n) == IF n = 0 THEN 1 ELSE 10 * Pow10(n - 1)

(***************************************************************************)
(* Python values.  A float is the decimal num/den with den the least power *)
(* of ten that represents it (299.00 and 299.0 are the same float); an int *)
(* is an integer.  A conversion yields [ok |-> FALSE] where Python raises  *)
(* ValueError.                                                             *)
(***************************************************************************)
RECURSIVE Normalize(_, _)
Normalize(n, d) ==
    IF d > 1 /\ n % 10 = 0 THEN Normalize(n \div 10, d \div 10)
    ELSE [num |-> n, den |-> d]

Float(n, d) == Normalize(n, d)

ValueError == [ok |-> FALSE, val |-> 0]

\* float(s) on text made of digits, ".", sign and blanks: surrounding
\* whitespace is ignored, then [sign] digits [. digits] or [sign] . digits.
\* (Exponents, "inf", "nan" and "_" are outside the alphabets enumerated.)
PyFloat(s) ==
    LET t == Strip(s)
        signed == t # <<>> /\ Head(t) \in {"+", "-"}
        body == IF signed THEN Tail(t) ELSE t
        dots == {k \in 1..Len(body) : body[k] = "."}
        wellFormed ==
            /\ \A k \in 1..Len(body) : body[k] \in Digit \cup {"."}
            /\ Cardinality(dots) <= 1
            /\ \E k \in 1..Len(body) : body[k] \in Digit
        dot == IF dots = {} THEN Len(body) + 1 ELSE CHOOSE k \in dots : TRUE
        whole == SubSeq(body, 1, dot - 1)
        frac == SubSeq(body, dot + 1, Len(body))
        mag == DigitsValue(whole \o frac)
    IN  IF ~wellFormed THEN ValueError
        ELSE [ok |-> TRUE,
              val |-> Float(IF signed /\ Head(t) = "-" THEN 0 - mag ELSE mag,
                            Pow10(Len(frac)))]

\* int(s) on text made of digits, sign and blanks
PyInt(s) ==
    LET t == Strip(s)
        signed == t # <<>> /\ Head(t) \in {"+", "-"}
        body == IF signed THEN Tail(t) ELSE t
    IN  IF body = <<>> \/ \E k \in 1..Len(body) : body[k] \notin Digit
        THEN ValueError
        ELSE [ok |-> TRUE,
              val |-> IF signed /\ Head(t) = "-" THEN 0 - DigitsValue(body)
                      ELSE DigitsValue(body)]

(***************************************************************************)
(* Listing nodes: what get_product reads of a ".thumbnail" subtree.        *)
(*   titleEl      select_one(".title") found an element                    *)
(*   title        that element's title attribute                           *)
(*   description, price, review   the text of the first element of class   *)
(*                description / price / review-count                       *)
(*   spans        the classes of the subtree's <span> elements             *)
(***************************************************************************)
Absent == [present |-> FALSE, text |-> <<>>]

Present(t) == [present |-> TRUE, text |-> t]

STAR == "ws-icon-star"

Node(te, ti, de, pr, sp, re) ==
    [titleEl |-> te, title |-> ti, description |-> de, price |-> pr,
     spans |-> sp, review |-> re]

\* @dataclass Product
Product(t, d, p, r, n) ==
    [title |-> t, description |-> d, price |-> p, rating |-> r,
     num_of_reviews |-> n]

\* Python's None, as get_product returns it
None == [none |-> TRUE]

PRODUCT_FIELDS == <<"title", "description", "price", "rating", "num_of_reviews">>

\* line 71: select_one(".title")["title"] raises TypeError without the
\* element and KeyError without the attribute
TitleRaises(node) == ~node.titleEl \/ ~node.title.present

\* lines 72-76
DescriptionOf(node) ==
    IF node.description.present
    THEN Strip(Replace(node.description.text, NBSP, <<" ">>))
    ELSE <<>>

\* the price expression without its existence test: .text of a missing
\* element raises
PriceOfUnguarded(node) ==
    IF node.price.present
    THEN PyFloat(Replace(node.price.text, "$", <<>>))
    ELSE ValueError

\* lines 77-81: [ok, val] of the price expression
PriceOf(node) ==
    IF node.price.present
    THEN PyFloat(Replace(node.price.text, "$", <<>>))
    ELSE [ok |-> TRUE, val |-> Float(0, 1)]

\* line 82
RatingOf(node) ==
    Cardinality({k \in 1..Len(node.spans) : node.spans[k] = STAR})

\* lines 83-87: [ok, val] of the review-count expression
ReviewsOf(node) ==
    IF node.review.present
    THEN PyInt(SplitFirst(node.review.text))
    ELSE [ok |-> TRUE, val |-> 0]

\* get_product with the description read without its existence test
get_product_unguarded_description(node) ==
    IF TitleRaises(node) \/ ~node.description.present
       \/ ~PriceOf(node).ok \/ ~ReviewsOf(node).ok
    THEN None
    ELSE Product(node.title.text, DescriptionOf(node), PriceOf(node).val,
                 RatingOf(node), ReviewsOf(node).val)

\* lines 69-92
get_product(node) ==
    IF TitleRaises(node) \/ ~PriceOf(node).ok \/ ~ReviewsOf(node).ok
    THEN None
    ELSE Product(node.title.text, DescriptionOf(node), PriceOf(node).val,
                 RatingOf(node), ReviewsOf(node).val)

\* line 103: the list comprehension of get_page
get_page_result(nodes) == [j \in 1..Len(nodes) |-> get_product(nodes[j])]

(***************************************************************************)
(* The listing nodes enumerated.                                           *)
(***************************************************************************)
AsusNode ==
    Node(TRUE, Present("Asus X"), Present(<<"o", "k">>),
         Present(<<"$", "2", "9", "9", ".", "0", "0">>),
         <<STAR, STAR, STAR>>,
         Present(<<"1", "2", " ", "r", "e", "v", "i", "e", "w", "s">>))

DellNode == Node(TRUE, Present("Dell Y"), Absent, Absent, <<>>, Absent)

\* a thumbnail without any element of class title
UntitledNode ==
    Node(FALSE, [present |-> FALSE, text |-> ""], Present(<<"o", "k">>),
         Absent, <<STAR>>, Absent)

\* the nodes a rendered document is made of
SampleNodes == {AsusNode, DellNode, UntitledNode}

Titles ==
    { [el |-> FALSE, attr |-> [present |-> FALSE, text |-> ""]],
      [el |-> TRUE, attr |-> [present |-> FALSE, text |-> ""]],
      [el |-> TRUE, attr |-> [present |-> TRUE, text |-> " Acer Z "]] }

Descriptions ==
    {Absent, Present(<<"o", "k">>), Present(<<" ", "o", NBSP, "k", NBSP>>)}

PriceTexts == SeqsUpTo({"$", "2", "."}, MaxLen)

ReviewTexts == SeqsUpTo({"1", " ", "r"}, MaxLen)

SpanLists == SeqsUpTo({STAR, "glyphicon"}, MaxSpans)

Nodes ==
    { Node(t.el, t.attr, d, p, s, r) :
        t \in Titles, d \in Descriptions,
        p \in {Absent} \cup {Present(x) : x \in PriceTexts},
        s \in SpanLists,
        r \in {Absent} \cup {Present(x) : x \in ReviewTexts} }
    \cup SampleNodes

(***************************************************************************)
(* Program constants and the environment's choices.                        *)
(***************************************************************************)
\* lines 17-24: the page names, in declaration order
PAGES == <<"home", "computers", "laptops", "tablets", "phones", "touch">>

PageNames == {PAGES[k] : k \in 1..Len(PAGES)}

\* the documents soup.select(".thumbnail") can return, in document order
Docs == SeqsUpTo(SampleNodes, MaxNodes)

TimeoutException == "TimeoutException"
ElementClickInterceptedException == "ElementClickInterceptedException"
WebDriverException == "WebDriverException"
IOError == "IOError"
AttributeError == "AttributeError"

\* the file of the current iteration: not there, or its rows
NoFile == [exists |-> FALSE, rows |-> <<>>]

File(rows) == [exists |-> TRUE, rows |-> rows]

(***************************************************************************)
(* State.                                                                  *)
(*   pc         position of the single thread of control                   *)
(*   i          index in PAGES of the page of the current iteration        *)
(*   driver     "none" | "open" | "closed": the browser session            *)
(*   sessions   sessions started (init_driver), quits: driver.quit() calls *)
(*   started    the pages get_page was called for, in call order           *)
(*   failed     the pages whose get_page took its except branch            *)
(*   kAvail     times the load-more control becomes clickable on the page  *)
(*   clicks, pauses   button.click() and time.sleep(0.5) calls on the page *)
(*   cookieExit, loadExit   how accept_cookies / click_load_more ended     *)
(*   docRead    driver.page_source was read on the page                    *)
(*   doc        what soup.select(".thumbnail") returned                    *)
(*   products   the list get_page returned                                 *)
(*   files      the pages whose <page>.csv exists; every iteration writes  *)
(*              its own file, so an earlier file never changes again       *)
(*   content    the content of the current iteration's file                *)
(*   row        index in products of the next record to write              *)
(*   wstat      "none" | "running" | "ok" | "ioerror": the writer's call   *)
(*   ioFailed   the writer caught an IOError in some iteration so far      *)
(*   exc, excAt the exception raised by the last step and where            *)
(*   node, result   SpecExtract: the node given to get_product, its result *)
(***************************************************************************)
VARIABLES pc, i, driver, sessions, quits, started, failed, kAvail, clicks,
          pauses, cookieExit, loadExit, docRead, doc, products, files, content,
          row,
          wstat, ioFailed, exc, excAt, node, result

evars == <<node, result>>

session == <<driver, sessions, quits>>

render == <<kAvail, clicks, pauses, cookieExit, loadExit, docRead>>

page == <<doc, products>>

writer == <<files, content, row, wstat, ioFailed>>

ovars == <<pc, i, session, started, failed, render, page, writer, exc, excAt>>

vars == <<ovars, evars>>

Pending == [pending |-> TRUE]

Cur == PAGES[i]

\* the locals of the rendering calls, as they are when get_page is entered
\* and after it has returned
RenderReset ==
    /\ kAvail' = 0
    /\ clicks' = 0
    /\ pauses' = 0
    /\ cookieExit' = "none"
    /\ loadExit' = "none"
    /\ docRead' = FALSE

Quiet == exc' = "none" /\ excAt' = "none"

Raised(e) == exc' = e /\ excAt' = pc

(***************************************************************************)
(* The except clauses.                                                     *)
(***************************************************************************)
\* an except clause that names TimeoutException only
catches_timeout_only(e) == e = TimeoutException

\* line 51
accept_cookies_catches(e) ==
    e \in {ElementClickInterceptedException, TimeoutException}

\* line 65
click_load_more_catches(e) ==
    e \in {TimeoutException, ElementClickInterceptedException}

\* line 104: except Exception
get_page_catches(e) ==
    e \in {TimeoutException, ElementClickInterceptedException,
           WebDriverException, IOError, AttributeError}

\* line 123
write_catches(e) == e = IOError

\* line 135: if products
ShouldWrite(ps) == ps # <<>>

\* click_load_more without its loop: one click, one pause, return
AfterPauseNoLoop == "read"

\* line 57: while True sends the loop back to the wait after the pause
AfterPause == "load_wait"

\* a writerow that rewrites the file instead of appending to it
writerow_truncating(f, r) == File(<<r>>)

\* lines 113, 122: csv writerow adds one row at the end of the file
writerow(f, r) == File(Append(f.rows, r))

\* lines 115-121
formatted_product(p) ==
    <<p.title, p.description, p.price, p.rating, p.num_of_reviews>>

(***************************************************************************)
(* Init: the state when get_all_products is entered.                       *)
(***************************************************************************)
Init ==
    /\ pc = "start"
    /\ i = 1
    /\ driver = "none"
    /\ sessions = 0
    /\ quits = 0
    /\ started = <<>>
    /\ failed = {}
    /\ kAvail = 0
    /\ clicks = 0
    /\ pauses = 0
    /\ cookieExit = "none"
    /\ loadExit = "none"
    /\ docRead = FALSE
    /\ doc = <<>>
    /\ products = <<>>
    /\ files = {}
    /\ content = NoFile
    /\ row = 1
    /\ wstat = "none"
    /\ ioFailed = FALSE
    /\ exc = "none"
    /\ excAt = "none"
    /\ node = DellNode
    /\ result = Pending

\* An exception nobody catches leaves get_all_products: the run is over and
\* nothing after the raising statement runs.
Crash(e) ==
    /\ pc' = "crashed"
    /\ Raised(e)
    /\ UNCHANGED <<i, session, started, failed, render, page, writer>>

\* get_page's except branch (lines 104-106): the page yields [].
PageFails(e) ==
    IF get_page_catches(e)
    THEN /\ pc' = "check"
         /\ failed' = failed \cup {Cur}
         /\ doc' = <<>>
         /\ products' = <<>>
         /\ Raised(e)
         /\ RenderReset
         /\ UNCHANGED <<i, session, started, writer>>
    ELSE Crash(e)

\* line 132: driver = init_driver(); the for loop is entered
InitDriver ==
    /\ pc = "start"
    /\ \/ /\ driver' = "open"
          /\ sessions' = sessions + 1
          /\ pc' = "loop"
          /\ Quiet
          /\ UNCHANGED <<i, quits, started, failed, render, page, writer>>
       \/ Crash(WebDriverException)
    /\ UNCHANGED evars

\* line 133: the for statement takes the next page, or ends
LoopHead ==
    /\ pc = "loop"
    /\ IF i <= Len(PAGES)
       THEN /\ pc' = "get"
            /\ started' = Append(started, Cur)
            /\ doc' = <<>>
            /\ products' = <<>>
            /\ row' = 1
            /\ wstat' = "none"
            /\ RenderReset
            /\ content' = NoFile
            /\ UNCHANGED <<i, files, ioFailed>>
       ELSE /\ pc' = "close"
            /\ UNCHANGED <<i, started, render, page, writer>>
    /\ Quiet
    /\ UNCHANGED <<session, failed, evars>>

\* line 97: driver.get(page_url)
Navigate ==
    /\ pc = "get"
    /\ \/ /\ \E k \in 0..MaxClicks : kAvail' = k
          /\ pc' = "cookie_wait"
          /\ Quiet
          /\ UNCHANGED <<i, session, started, failed, clicks, pauses,
                         cookieExit, loadExit, docRead, page, writer>>
       \/ \E e \in {WebDriverException, TimeoutException} : PageFails(e)
    /\ UNCHANGED evars

\* an exception raised inside accept_cookies (lines 46-52)
CookieRaises(e) ==
    IF accept_cookies_catches(e)
    THEN /\ pc' = "load_wait"
         /\ cookieExit' = e
         /\ Raised(e)
         /\ UNCHANGED <<i, session, started, failed, kAvail, clicks, pauses,
                        loadExit, docRead, page, writer>>
    ELSE PageFails(e)

\* lines 47-49: wait for the consent control
CookieWait ==
    /\ pc = "cookie_wait"
    /\ \/ /\ pc' = "cookie_click"
          /\ Quiet
          /\ UNCHANGED <<i, session, started, failed, render, page, writer>>
       \/ \E e \in {TimeoutException, WebDriverException} : CookieRaises(e)
    /\ UNCHANGED evars

\* line 50: cookie.click()
CookieClick ==
    /\ pc = "cookie_click"
    /\ \/ /\ pc' = "load_wait"
          /\ cookieExit' = "clicked"
          /\ Quiet
          /\ UNCHANGED <<i, session, started, failed, kAvail, clicks, pauses,
                         loadExit, docRead, page, writer>>
       \/ \E e \in {ElementClickInterceptedException, WebDriverException} :
             CookieRaises(e)
    /\ UNCHANGED evars

\* an exception raised inside click_load_more (lines 56-66)
LoadRaises(e) ==
    IF click_load_more_catches(e)
    THEN /\ pc' = "read"
         /\ loadExit' = e
         /\ Raised(e)
         /\ UNCHANGED <<i, session, started, failed, kAvail, clicks, pauses,
                        cookieExit, docRead, page, writer>>
    ELSE PageFails(e)

\* lines 58-62: the control is clickable while fewer than kAvail clicks were
\* made; after that the wait times out
LoadWait ==
    /\ pc = "load_wait"
    /\ \/ /\ clicks < kAvail
          /\ pc' = "load_click"
          /\ Quiet
          /\ UNCHANGED <<i, session, started, failed, render, page, writer>>
       \/ /\ clicks >= kAvail
          /\ LoadRaises(TimeoutException)
       \/ PageFails(WebDriverException)
    /\ UNCHANGED evars

\* line 63: button.click()
LoadClick ==
    /\ pc = "load_click"
    /\ \/ /\ clicks' = clicks + 1
          /\ pc' = "pause"
          /\ Quiet
          /\ UNCHANGED <<i, session, started, failed, kAvail, pauses,
                         cookieExit, loadExit, docRead, page, writer>>
       \/ \E e \in {ElementClickInterceptedException, WebDriverException} :
             LoadRaises(e)
    /\ UNCHANGED evars

\* line 64: time.sleep(0.5), then back to the head of while True
Pause ==
    /\ pc = "pause"
    /\ pauses' = pauses + 1
    /\ pc' = AfterPause
    /\ Quiet
    /\ UNCHANGED <<i, session, started, failed, kAvail, clicks, cookieExit,
                   loadExit, docRead, page, writer, evars>>

\* line 100: driver.page_source is read
ReadSource ==
    /\ pc = "read"
    /\ \/ /\ docRead' = TRUE
          /\ pc' = "parse"
          /\ Quiet
          /\ UNCHANGED <<i, session, started, failed, kAvail, clicks, pauses,
                         cookieExit, loadExit, page, writer>>
       \/ PageFails(WebDriverException)
    /\ UNCHANGED evars

\* lines 100-103: the source is parsed, the thumbnails selected and the list
\* comprehension evaluated; get_page returns the list, unless one of these
\* calls raises
Parse ==
    /\ pc = "parse"
    /\ \/ /\ \E d \in Docs :
                /\ doc' = d
                /\ products' = get_page_result(d)
          /\ pc' = "check"
          /\ Quiet
          /\ RenderReset
          /\ UNCHANGED <<i, session, started, failed, writer>>
       \/ PageFails(AttributeError)
    /\ UNCHANGED evars

\* the for loop's next iteration
NextPage ==
    /\ pc' = "loop"
    /\ i' = i + 1

\* lines 135-137: if products: write_products_to_csv(...)
Check ==
    /\ pc = "check"
    /\ IF ShouldWrite(products)
       THEN /\ pc' = "open"
            /\ wstat' = "running"
            /\ UNCHANGED i
       ELSE /\ NextPage
            /\ UNCHANGED wstat
    /\ Quiet
    /\ UNCHANGED <<session, started, failed, render, page, files, content,
                   row, ioFailed, evars>>

\* an exception raised inside write_products_to_csv (lines 110-124); the
\* with statement has closed the file, what was written stays
WriterRaises(e) ==
    IF write_catches(e)
    THEN /\ NextPage
         /\ wstat' = "ioerror"
         /\ ioFailed' = TRUE
         /\ Raised(e)
         /\ UNCHANGED <<session, started, failed, render, page, files,
                        content, row>>
    ELSE Crash(e)

\* line 111: open(path, "w") creates or truncates the file
OpenFile ==
    /\ pc = "open"
    /\ \/ /\ files' = files \cup {Cur}
          /\ content' = File(<<>>)
          /\ pc' = "header"
          /\ Quiet
          /\ UNCHANGED <<i, session, started, failed, render, page, row,
                         wstat, ioFailed>>
       \/ WriterRaises(IOError)
    /\ UNCHANGED evars

\* line 113: writer.writerow(PRODUCT_FIELDS)
WriteHeader ==
    /\ pc = "header"
    /\ \/ /\ content' = writerow(content, PRODUCT_FIELDS)
          /\ pc' = "rows"
          /\ Quiet
          /\ UNCHANGED <<i, session, started, failed, render, page, files,
                         row, wstat, ioFailed>>
       \/ WriterRaises(IOError)
    /\ UNCHANGED evars

\* lines 114-122: one iteration of the for loop over products; reading
\* product.title of None raises AttributeError
WriteRow ==
    /\ pc = "rows"
    /\ row <= Len(products)
    /\ \/ /\ products[row] # None
          /\ content' = writerow(content, formatted_product(products[row]))
          /\ row' = row + 1
          /\ Quiet
          /\ UNCHANGED <<pc, i, session, started, failed, render, page,
                         files, wstat, ioFailed>>
       \/ /\ products[row] = None
          /\ WriterRaises(AttributeError)
       \/ /\ products[row] # None
          /\ WriterRaises(IOError)
    /\ UNCHANGED evars

\* the for loop is exhausted: the with block closes the file and
\* write_products_to_csv returns
WriteDone ==
    /\ pc = "rows"
    /\ row > Len(products)
    /\ \/ /\ NextPage
          /\ wstat' = "ok"
          /\ Quiet
          /\ UNCHANGED <<session, started, failed, render, page, files,
                         content, row, ioFailed>>
       \/ WriterRaises(IOError)
    /\ UNCHANGED evars

\* lines 127-128, 139: close_driver(driver)
CloseDriver ==
    /\ pc = "close"
    /\ driver' = "closed"
    /\ quits' = quits + 1
    /\ pc' = "done"
    /\ Quiet
    /\ UNCHANGED <<i, sessions, started, failed, render, page, writer, evars>>

Next ==
    \/ InitDriver
    \/ LoopHead
    \/ Navigate
    \/ CookieWait
    \/ CookieClick
    \/ LoadWait
    \/ LoadClick
    \/ Pause
    \/ ReadSource
    \/ Parse
    \/ Check
    \/ OpenFile
    \/ WriteHeader
    \/ WriteRow
    \/ WriteDone
    \/ CloseDriver

Spec == Init /\ [][Next]_vars

(***************************************************************************)
(* get_product applied to one listing node.                                *)
(***************************************************************************)
InitExtract ==
    /\ pc = "extract"
    /\ i = 1
    /\ driver = "none"
    /\ sessions = 0
    /\ quits = 0
    /\ started = <<>>
    /\ failed = {}
    /\ kAvail = 0
    /\ clicks = 0
    /\ pauses = 0
    /\ cookieExit = "none"
    /\ loadExit = "none"
    /\ docRead = FALSE
    /\ doc = <<>>
    /\ products = <<>>
    /\ files = {}
    /\ content = NoFile
    /\ row = 1
    /\ wstat = "none"
    /\ ioFailed = FALSE
    /\ exc = "none"
    /\ excAt = "none"
    /\ node \in Nodes
    /\ result = Pending

Extract ==
    /\ result = Pending
    /\ result' = get_product(node)
    /\ UNCHANGED <<node, ovars>>

NextExtract == Extract

SpecExtract == InitExtract /\ [][NextExtract]_vars

(***************************************************************************)
(* Properties.                                                             *)
(***************************************************************************)
Terminal == pc \in {"done", "crashed"}

Transient == {TimeoutException, ElementClickInterceptedException}

IsRecord(x) == x # None

HasRecord(ps) == \E k \in 1..Len(ps) : IsRecord(ps[k])

\* the records of the nodes whose extraction succeeded, in document order
RecordsOf(nodes) == SelectSeq(get_page_result(nodes), IsRecord)

Stars(n) == Len(SelectSeq(n.spans, LAMBDA c : c = STAR))

AsusRecord ==
    [title |-> "Asus X", description |-> <<"o", "k">>,
     price |-> [num |-> 299, den |-> 1], rating |-> 3, num_of_reviews |-> 12]

DellRecord ==
    [title |-> "Dell Y", description |-> <<>>,
     price |-> [num |-> 0, den |-> 1], rating |-> 0, num_of_reviews |-> 0]

\* C1: a run that started the session quits it exactly once, only after
\* the last page of PAGES was processed, and never ends with it open.
C1_SessionClosedExactlyOnce ==
    /\ quits <= 1
    /\ (quits = 1 => started = PAGES /\ i > Len(PAGES))
    /\ (Terminal /\ sessions >= 1 => driver = "closed" /\ quits = 1)

\* C2: the list get_page returns for a page that did not fail holds exactly
\* the records of the nodes whose extraction succeeded, in document order,
\* and no entry for a node whose extraction failed.
C2_FailedNodesDropped ==
    (pc = "check" /\ Cur \notin failed) =>
        /\ \A k \in 1..Len(products) : IsRecord(products[k])
        /\ products = RecordsOf(doc)

\* C3: a page's file exists only if at least one Product record was
\* extracted for that page; a failed page has no file.
C3_FileOnlyWithRecord ==
    /\ (content.exists => HasRecord(products))
    /\ \A p \in failed : p \notin files

\* C4: a page that fails in get_page yields the empty list and leaves the
\* session open and the same; a run in which a page failed still calls
\* get_page for every page of PAGES, in declaration order.
C4_PageFailureIsolated ==
    /\ (pc = "check" /\ Cur \in failed) =>
           products = <<>> /\ driver = "open" /\ sessions = 1
    /\ (Terminal /\ failed # {}) => started = PAGES /\ sessions = 1

\* C5: an IOError in the writer does not leave the writer, and a run in
\* which the writer failed still processes every page and quits the session.
C5_WriterFailureNonFatal ==
    /\ (exc = IOError => pc = "loop")
    /\ (Terminal /\ ioFailed) =>
           started = PAGES /\ driver = "closed" /\ quits = 1

\* C6: when the load-more wait times out after the control was clickable
\* kAvail times, exactly kAvail clicks and kAvail pauses were made, the
\* timeout left click_load_more without failing the page, nothing is
\* clicked after the loop has ended, and the document is read only after it.
C6_ExactlyKCycles ==
    /\ pauses <= clicks /\ clicks <= kAvail
    /\ (loadExit = TimeoutException => clicks = kAvail /\ pauses = kAvail)
    /\ (loadExit # "none" => pc \in {"read", "parse"})
    /\ (docRead => loadExit # "none" /\ pauses = clicks)
    /\ (exc = TimeoutException /\ excAt = "load_wait" =>
           pc = "read" /\ Cur \notin failed)

C6_Witness ==
    /\ docRead
    /\ loadExit = TimeoutException
    /\ kAvail = MaxClicks
    /\ clicks = MaxClicks

\* C7: when the writer returns without an error, the file is the header row
\* followed by one row per record of the list, in the order of the list,
\* which is the document order of the page's listing nodes.
C7_FileIsHeaderPlusRows ==
    wstat = "ok" =>
        /\ content.exists
        /\ Len(content.rows) = Len(products) + 1
        /\ Len(products) = Len(doc)
        /\ content.rows[1] = PRODUCT_FIELDS
        /\ \A k \in 1..Len(products) :
              /\ IsRecord(products[k])
              /\ products[k] = get_product(doc[k])
              /\ content.rows[k + 1] =
                    <<products[k].title, products[k].description,
                      products[k].price, products[k].rating,
                      products[k].num_of_reviews>>

C7_Witness ==
    /\ wstat = "ok"
    /\ doc = <<AsusNode, DellNode>>
    /\ Len(content.rows) = 3

\* C8 as stated: every node with a title attribute gives a record with that
\* title, whatever its other elements hold.
C8_TitledNodeGivesRecord ==
    (result # Pending /\ ~TitleRaises(node)) =>
        IsRecord(result) /\ result.title = node.title.text

PriceTextParses(n) ==
    ~n.price.present \/ PyFloat(Replace(n.price.text, "$", <<>>)).ok

ReviewTextParses(n) ==
    ~n.review.present \/ PyInt(SplitFirst(n.review.text)).ok

\* C8 amended: a node with a title attribute whose price text (if there is
\* a price element) is accepted by float() once "$" is removed, and whose
\* review text (if there is a review-count element) starts with a token
\* accepted by int(), gives a record with that title.
C8_TitledParsableNodeGivesRecord ==
    (/\ result # Pending
     /\ ~TitleRaises(node)
     /\ PriceTextParses(node)
     /\ ReviewTextParses(node)) =>
        IsRecord(result) /\ result.title = node.title.text

C8_Witness ==
    /\ result # Pending
    /\ ~TitleRaises(node)
    /\ node.price.present
    /\ node.review.present
    /\ ~node.description.present
    /\ IsRecord(result)
    /\ result.title = " Acer Z "

\* C9: each optional field falls back on its own: no description element
\* gives "", no price element gives 0.0, no review-count element gives 0,
\* rating is the number of star spans; the fully populated "Asus X" node and
\* the title-only "Dell Y" node give ("Asus X","ok",299.0,3,12) and
\* ("Dell Y","",0.0,0,0), in that order.
C9_Fallbacks ==
    /\ (result # Pending /\ IsRecord(result)) =>
          /\ (~node.description.present => result.description = <<>>)
          /\ (~node.price.present => result.price = [num |-> 0, den |-> 1])
          /\ (~node.review.present => result.num_of_reviews = 0)
          /\ result.rating = Stars(node)
    /\ (/\ result # Pending
        /\ ~TitleRaises(node)
        /\ ~node.price.present
        /\ ~node.review.present) => IsRecord(result)
    /\ (result # Pending /\ node = AsusNode => result = AsusRecord)
    /\ (result # Pending /\ node = DellNode => result = DellRecord)
    /\ get_page_result(<<AsusNode, DellNode>>) = <<AsusRecord, DellRecord>>

C9_Witness ==
    /\ result # Pending
    /\ IsRecord(result)
    /\ ~node.description.present
    /\ ~node.price.present
    /\ node.review.present
    /\ Stars(node) = 1
    /\ Len(node.spans) = 2

\* C10: a timeout or an intercepted click in accept_cookies leaves it
\* normally and pagination follows; a timeout or an intercepted click in
\* click_load_more leaves it normally and the document is read; neither
\* makes the page fail.
C10_TransientNotPageFailure ==
    /\ (exc \in Transient /\ excAt \in {"cookie_wait", "cookie_click"}) =>
           pc = "load_wait" /\ cookieExit = exc /\ Cur \notin failed
    /\ (exc \in Transient /\ excAt \in {"load_wait", "load_click"}) =>
           pc = "read" /\ loadExit = exc /\ Cur \notin failed
    /\ (cookieExit \in Transient) =>
           pc \in {"load_wait", "load_click", "pause", "read", "parse"}

C10_Witness ==
    /\ pc = "parse"
    /\ docRead
    /\ cookieExit = ElementClickInterceptedException
    /\ loadExit = ElementClickInterceptedException
====
